---- MODULE Spec2Model ----
(***************************************************************************)
(* NOC monitoring backend (src/unnamed/part_000): startup of the two MySQL *)
(* pools, the health probe, the HTTP handlers, the 5 s poll tick           *)
(* fetchAndEmitData and the Socket.IO broadcast.                           *)
(*                                                                         *)
(* Node runs one continuation at a time: an action below is one            *)
(* continuation of a handler, from the event that resumes it (a timer, a   *)
(* settled query, an incoming request) to its next await or its end.       *)
(***************************************************************************)
EXTENDS Integers, Sequences, FiniteSets, TLC

\* createPoolWithRetry(retries = 5, ...)
Retries == 5
\* let retries = 3 in the /api/access-logs handler
AccessLogRetries == 3

\* connectionLimit of the primary pool and of the access-log pool
PrimaryLimit == 10
LogsLimit == 5

\* Bounds of the model (not program constants).
MaxInFlight == 2
MaxSockets == 2
MaxHeaderLen == 3
MaxValueLen == 2
MaxClock == 2
MaxLogRows == 2
MaxQueued == 2

Stores == {"primary", "logs"}

NotWatching == [store |-> "none", ahead |-> 0]

VARIABLES
  procState,        \* "running" | "exited" (process.exit(1)) | "crashed" (unhandled rejection)
  storeUp,          \* environment: which database accepts connections / answers queries now
  logsSeenUp,       \* history: the access-log store was reachable at some moment of the startup
  attempt,          \* i of createPoolWithRetry's for loop
  retryPc,          \* where createPoolWithRetry stands
  failedAttempts,   \* history: number of getConnection() calls of startup that rejected
  pool,             \* let pool
  accessLogsPool,   \* let accessLogsPool
  startup,          \* outcome of Promise.all(...).then/.catch
  held,             \* mysql2: connections checked out of each pool
  queued,           \* mysql2: queries waiting in each pool's queue for a connection
  watched,          \* history: where one of the waiting queries stands in its queue
  healthPc,         \* GET /api/health: "idle" | "probing" | "responded"
  healthRes,        \* its last response, with the probe's outcome
  hasRows,          \* environment: whether the table behind each poll query holds a row
  storedForms,      \* environment: the forms in which the sensor tables store suhu / kelembapan
  now,              \* environment: the wall clock
  pollTimer,        \* setInterval(fetchAndEmitData, 5000): "armed" | "cleared"
  ticks,            \* runs of fetchAndEmitData in flight, oldest first
  lastTick,         \* history: how the run that ended last ended
  tickFailedBefore, \* history: some run has ended in the catch block
  sockets,          \* Socket.IO: ids of the sockets connected to the default namespace
  socketCount,      \* Socket.IO: number of connections accepted so far (ids are never reused)
  erroredSockets,   \* history: sockets whose transport failed
  lastEmit,         \* history: the io.emit calls of the latest emitting step, in order
  lastEvents,       \* history: the result that step got and the payloads it passed to io.emit
  alPc,             \* GET /api/access-logs: "idle" | "querying" | "waiting" | "responded"
  alRetries,        \* its let retries
  alFailures,       \* history: queries of this request that failed
  alRes,            \* its response
  alSent,           \* history: the queries it has issued and the responses it has sent
  authReq,          \* /api/protected: the Authorization header of the latest request
  authRes,          \* what authenticateToken did with it
  loginPc,          \* POST /api/login: "idle" | "querying" | "comparing" | "responded"
  loginReq,         \* its req.body
  loginRes,         \* its response, with the path taken
  kept              \* which of the histories ("tick": lastTick, "emit": lastEmit,
                    \* "event": lastEvents) a run records

connVars == <<procState, storeUp, logsSeenUp, attempt, retryPc, failedAttempts,
              pool, accessLogsPool, startup, held>>
queueVars == <<queued, watched>>
healthVars == <<healthPc, healthRes>>
pollVars == <<hasRows, storedForms, now, pollTimer, ticks, lastTick, tickFailedBefore,
              lastEvents>>
hubVars == <<sockets, socketCount, erroredSockets, lastEmit>>
accessLogVars == <<alPc, alRetries, alFailures, alRes, alSent>>
authVars == <<authReq, authRes>>
loginVars == <<loginPc, loginReq, loginRes>>
httpVars == <<accessLogVars, authVars, loginVars>>
vars == <<connVars, queueVars, healthVars, pollVars, hubVars, httpVars, kept>>

----------------------------------------------------------------------------
(* Startup: createPoolWithRetry, createAccessLogsPool, Promise.all *)

\* (A variant that waits after the last attempt too and goes round once more.)
AfterFailedAttemptOffByOne(i) == IF i < Retries THEN "delay" ELSE "thrown"

\* The catch block of createPoolWithRetry after attempt i failed: wait and go
\* round again while i < retries - 1, otherwise leave the loop and throw.
AfterFailedAttempt(i) == IF i < Retries - 1 THEN "delay" ELSE "thrown"

\* createAccessLogsPool: createPool() only builds the pool object; it opens
\* no connection, so the promise resolves whatever the store's state is.
createAccessLogsPool == "resolved"

\* Promise.all([...]).then(assign both pools).catch(process.exit(1)).
PromiseAll(mainPool, logsPool) ==
  IF mainPool = "returned" /\ logsPool = "resolved" THEN "established"
  ELSE IF mainPool = "thrown" \/ logsPool = "rejected" THEN "fatal"
  ELSE "pending"

Settle(mainPool) ==
  LET outcome == PromiseAll(mainPool, createAccessLogsPool) IN
  /\ retryPc' = mainPool
  /\ startup' = outcome
  /\ pool' = IF outcome = "established" THEN "mainPool" ELSE pool
  /\ accessLogsPool' = IF outcome = "established" THEN "logsPool" ELSE accessLogsPool
  /\ procState' = IF outcome = "fatal" THEN "exited" ELSE procState

\* (A variant that returns the pool without releasing the test connection.)
AfterTestConnectionKept(n) == n + 1

\* const connection = await pool.getConnection(); connection.release(): the
\* number of connections checked out of the pool, from n before the two
\* statements.
AfterTestConnection(n) == (n + 1) - 1

\* await pool.getConnection() resolved: release, return pool.
PoolAttemptSucceeds ==
  /\ procState = "running" /\ retryPc = "getConnection"
  /\ storeUp["primary"]
  /\ Settle("returned")
  /\ held' = [held EXCEPT !["primary"] = AfterTestConnection(@)]
  /\ UNCHANGED <<storeUp, logsSeenUp, attempt, failedAttempts>>

\* await pool.getConnection() rejected: the catch block.
PoolAttemptFails ==
  /\ procState = "running" /\ retryPc = "getConnection"
  /\ ~storeUp["primary"]
  /\ failedAttempts' = failedAttempts + 1
  /\ Settle(AfterFailedAttempt(attempt))
  /\ UNCHANGED <<storeUp, logsSeenUp, attempt, held>>

\* setTimeout(resolve, delay) fired: i++ and the next attempt starts.
RetryDelayElapsed ==
  /\ procState = "running" /\ retryPc = "delay"
  /\ attempt' = attempt + 1
  /\ retryPc' = "getConnection"
  /\ UNCHANGED <<procState, storeUp, logsSeenUp, failedAttempts, pool,
                 accessLogsPool, startup, held>>

StartupStep == PoolAttemptSucceeds \/ PoolAttemptFails \/ RetryDelayElapsed

\* Environment: a database goes down or comes back.
StoreFlips(s) ==
  /\ procState = "running"
  /\ storeUp' = [storeUp EXCEPT ![s] = ~@]
  /\ logsSeenUp' = (logsSeenUp \/ (s = "logs" /\ startup = "pending"))
  /\ UNCHANGED <<procState, attempt, retryPc, failedAttempts, pool,
                 accessLogsPool, startup, held>>

----------------------------------------------------------------------------
(* GET /api/health and checkDatabaseConnection *)

\* (A variant without the try/catch.)
checkDatabaseConnectionUncaught(acquired) == IF acquired THEN "true" ELSE "throws"

\* checkDatabaseConnection: true when getConnection() resolved (the connection
\* is released at once), false from the catch block.
checkDatabaseConnection(acquired) == IF acquired THEN "true" ELSE "false"

\* res.json({status: 'ok', database: ...}); a rejection of the async handler
\* that nothing catches leaves the request unanswered and ends the process.
NoHealthResponse ==
  [status |-> 0, body |-> "none", database |-> "none", acquired |-> FALSE]

HealthResponse(dbConnected, acquired) ==
  IF dbConnected = "throws"
  THEN NoHealthResponse
  ELSE [status |-> 200, body |-> "ok",
        database |-> IF dbConnected = "true" THEN "connected" ELSE "disconnected",
        acquired |-> acquired]

HealthRespond(acquired) ==
  LET dbConnected == checkDatabaseConnection(acquired) IN
  /\ healthRes' = HealthResponse(dbConnected, acquired)
  /\ healthPc' = "responded"
  /\ procState' = IF dbConnected = "throws" THEN "crashed" ELSE procState

\* A request arrives. With pool still undefined, pool.getConnection() throws a
\* TypeError inside the try block and the handler answers in the same turn.
HealthRequest ==
  /\ procState = "running" /\ healthPc # "probing"
  /\ IF pool = "undefined"
     THEN HealthRespond(FALSE)
     ELSE healthPc' = "probing" /\ healthRes' = NoHealthResponse /\ UNCHANGED procState
  /\ UNCHANGED <<storeUp, logsSeenUp, attempt, retryPc, failedAttempts, pool,
                 accessLogsPool, startup, held>>

\* pool.getConnection() of the probe settles.
HealthProbeSettles ==
  /\ procState = "running" /\ healthPc = "probing"
  /\ HealthRespond(storeUp["primary"])
  /\ UNCHANGED <<storeUp, logsSeenUp, attempt, retryPc, failedAttempts, pool,
                 accessLogsPool, startup, held>>

HealthStep == HealthRequest \/ HealthProbeSettles


----------------------------------------------------------------------------
(* The poll tick: setInterval(fetchAndEmitData, 5000) *)

Queries == 1..5

\* The five queries of fetchAndEmitData in the order it awaits them:
\* sensor_data, sensor_data1, listrik_noc, api_asap_data, access_logs join.
StoreOf(q) == IF q = 5 THEN "logs" ELSE "primary"

\* (A variant whose pools are created when the module is loaded.)
PoolOfCreatedAtLoad(q) == IF q = 5 THEN "logsPool" ELSE "mainPool"

\* pool.query for the first four queries, accessLogsPool.query for the fifth:
\* the variables are read when the query is issued.
PoolOf(q) == IF q = 5 THEN accessLogsPool ELSE pool

\* (A variant with the listrik_noc and api_asap_data blocks in the other order.)
TopicsOfFireFirst(q) ==
  CASE q = 1 -> <<"noc_temperature", "noc_humidity">>
    [] q = 2 -> <<"ups_temperature", "ups_humidity">>
    [] q = 3 -> <<"fire_smoke_data">>
    [] q = 4 -> <<"electrical_data">>
    [] q = 5 -> <<"access_logs">>

TopicsOf(q) ==
  CASE q = 1 -> <<"noc_temperature", "noc_humidity">>
    [] q = 2 -> <<"ups_temperature", "ups_humidity">>
    [] q = 3 -> <<"electrical_data">>
    [] q = 4 -> <<"fire_smoke_data">>
    [] q = 5 -> <<"access_logs">>

\* (A variant that sends to every socket that ever connected.)
ioEmitToEverConnected(topic) ==
  [topic |-> topic, to |-> 1..socketCount, errored |-> erroredSockets]

\* io.emit(topic, payload): Socket.IO sends to the sockets connected now.
\* (errored records the sockets dropped before this call.)
ioEmit(topic) == [topic |-> topic, to |-> sockets, errored |-> erroredSockets]

\* Characters of a stored sensor value: a digit, the decimal point, a letter.
Digits == {"2"}

ValueChars == Digits \cup {".", "a"}

RECURSIVE ValuesUpTo(_)
ValuesUpTo(n) ==
  IF n = 0 THEN {<<>>}
  ELSE LET shorter == ValuesUpTo(n - 1) IN
       shorter \cup {Append(w, c) : w \in {x \in shorter : Len(x) = n - 1},
                                    c \in ValueChars}

\* Every form a text column can hold, and the form a DECIMAL column holds.
AnyForms == ValuesUpTo(MaxValueLen)

DecimalForms == {<<"2">>}

NaN == [nan |-> TRUE, whole |-> <<>>, frac |-> <<>>]

RECURSIVE DigitRun(_)
DigitRun(str) ==
  IF str = <<>> \/ Head(str) \notin Digits THEN <<>>
  ELSE <<Head(str)>> \o DigitRun(Tail(str))

\* parseFloat (ECMAScript): the value of the longest prefix of the string
\* that is a decimal literal (digits, optionally a point and digits; at
\* least one digit), NaN when there is no such prefix. What follows the
\* prefix is ignored. (Sign, exponent, leading blanks and Infinity are not
\* among ValueChars.)
parseFloat(str) ==
  LET whole == DigitRun(str)
      rest == SubSeq(str, Len(whole) + 1, Len(str))
      frac == IF rest # <<>> /\ Head(rest) = "." THEN DigitRun(Tail(rest)) ELSE <<>> IN
  IF whole = <<>> /\ frac = <<>>
  THEN NaN
  ELSE [nan |-> FALSE, whole |-> whole, frac |-> frac]

\* The latest row of sensor_data / sensor_data1, written at some moment up to
\* now (dateStrings: true: waktu comes back as stored).
SensorRows ==
  {[suhu |-> s, kelembapan |-> k, waktu |-> w] :
     s \in storedForms, k \in storedForms, w \in 0..now}

\* The latest row of listrik_noc / api_asap_data: SELECT * returns whatever
\* columns the table has; waktu stands for its time column, columns for the
\* measurements.
MeasurementRows == {[waktu |-> w, columns |-> "as stored"] : w \in 0..now}

\* A row of the access-log join.
LogEntries ==
  {[access_time |-> w, access_granted |-> "0 or 1", username |-> "username or NULL",
    door_name |-> "door_name or NULL"] : w \in 0..now}

\* ORDER BY al.access_time DESC LIMIT 5: the latest entries, newest first.
RECURSIVE LogResults(_)
LogResults(n) ==
  IF n = 1 THEN {<<e>> : e \in LogEntries}
  ELSE LET shorter == LogResults(n - 1) IN
       shorter \cup
         {<<p[1]>> \o p[2] :
            p \in {x \in LogEntries \X shorter :
                     Len(x[2]) = n - 1 /\ x[1].access_time >= x[2][1].access_time}}

\* What the query q can resolve to.
ResultsOf(q) ==
  IF ~hasRows[q] THEN {<<>>}
  ELSE CASE q \in {1, 2} -> {<<r>> : r \in SensorRows}
         [] q \in {3, 4} -> {<<r>> : r \in MeasurementRows}
         [] q = 5 -> LogResults(MaxLogRows)

\* (A variant that stamps the event when it is emitted.)
TemperatureEventStampedNow(row) == [suhu |-> parseFloat(row.suhu), waktu |-> now]

\* { suhu: parseFloat(row.suhu), waktu: row.waktu }
TemperatureEvent(row) == [suhu |-> parseFloat(row.suhu), waktu |-> row.waktu]

\* { kelembapan: parseFloat(row.kelembapan), waktu: row.waktu }
HumidityEvent(row) == [kelembapan |-> parseFloat(row.kelembapan), waktu |-> row.waktu]

\* The second argument of the io.emit calls made for the result of query q,
\* in order: two objects built from the sensor row, the row itself, or the
\* whole list of entries.
PayloadsFor(q, result) ==
  IF result = <<>> THEN <<>>
  ELSE CASE q \in {1, 2} -> <<TemperatureEvent(result[1]), HumidityEvent(result[1])>>
         [] q \in {3, 4} -> <<result[1]>>
         [] q = 5 -> <<result>>

NoEvents == [query |-> 0, at |-> 0, result |-> <<>>, payloads |-> <<>>]
\* (A variant without the rows.length test.)
EmitsForUnguarded(q) == [k \in 1..Len(TopicsOf(q)) |-> ioEmit(TopicsOf(q)[k])]
\* if (rows.length > 0) { io.emit(...); [io.emit(...);] }
EmitsFor(q) ==
  IF hasRows[q]
  THEN [k \in 1..Len(TopicsOf(q)) |-> ioEmit(TopicsOf(q)[k])]
  ELSE <<>>

TopicsEmitted(emits) == [k \in 1..Len(emits) |-> emits[k].topic]

NoTick ==
  [failed |-> 0, cause |-> "never", emitted |-> <<>>, afterFailure |-> FALSE]

RemoveAt(seq, t) == [k \in 1..(Len(seq) - 1) |-> IF k < t THEN seq[k] ELSE seq[k + 1]]

\* The run got past its last query: the try block ends.
TickEnds(t, emitted) ==
  /\ ticks' = RemoveAt(ticks, t)
  /\ lastTick' = IF "tick" \in kept
                 THEN [failed |-> 0, cause |-> "none", emitted |-> emitted,
                       afterFailure |-> ticks[t].afterFailure]
                 ELSE lastTick
  /\ UNCHANGED <<tickFailedBefore, pollTimer, procState>>

\* (A variant whose catch block rethrows: the rejection of the async function
\* is unhandled and ends the process.)
TickCatchRethrows(t, q, cause, emitted, afterFailure) ==
  /\ ticks' = IF t = 0 THEN ticks ELSE RemoveAt(ticks, t)
  /\ lastTick' = IF "tick" \in kept
                 THEN [failed |-> q, cause |-> cause, emitted |-> emitted,
                       afterFailure |-> afterFailure]
                 ELSE lastTick
  /\ tickFailedBefore' = ("tick" \in kept)
  /\ pollTimer' = "cleared"
  /\ procState' = "crashed"

\* catch (error) { console.error(...) } around the whole body: the run ends
\* there, whichever statement threw; nothing is rethrown. (t = 0: the run
\* threw before its first await.)
TickCatch(t, q, cause, emitted, afterFailure) ==
  /\ ticks' = IF t = 0 THEN ticks ELSE RemoveAt(ticks, t)
  /\ lastTick' = IF "tick" \in kept
                 THEN [failed |-> q, cause |-> cause, emitted |-> emitted,
                       afterFailure |-> afterFailure]
                 ELSE lastTick
  /\ tickFailedBefore' = ("tick" \in kept)
  /\ UNCHANGED <<pollTimer, procState>>

\* The interval timer fires (it is never cleared and does not wait for the
\* previous run). With pool still undefined, pool.query throws a TypeError inside
\* the try block and the run ends in the catch block in the same turn.
fetchAndEmitData ==
  /\ procState = "running" /\ pollTimer = "armed"
  /\ Len(ticks) < MaxInFlight
  /\ IF PoolOf(1) = "undefined"
     THEN TickCatch(0, 1, "TypeError", <<>>, tickFailedBefore)
     ELSE /\ ticks' = Append(ticks, [pc |-> 1, emitted |-> <<>>,
                                     afterFailure |-> tickFailedBefore])
          /\ UNCHANGED <<lastTick, tickFailedBefore, pollTimer, procState>>
  /\ UNCHANGED <<hasRows, storedForms, now, lastEmit, lastEvents>>

\* The query run t awaits resolved: emit its events, then issue the next query
\* or end the run.
QueryResolved(t) ==
  LET q == ticks[t].pc
      emits == EmitsFor(q)
      emitted == ticks[t].emitted \o TopicsEmitted(emits) IN
  /\ procState = "running"
  /\ storeUp[StoreOf(q)]
  /\ lastEmit' = IF emits = <<>> \/ "emit" \notin kept THEN lastEmit ELSE emits
  /\ \E result \in ResultsOf(q) :
       lastEvents' = IF result = <<>> \/ "event" \notin kept
                     THEN lastEvents
                     ELSE [query |-> q, at |-> now, result |-> result,
                           payloads |-> PayloadsFor(q, result)]
  /\ IF q = 5
     THEN TickEnds(t, emitted)
     ELSE IF PoolOf(q + 1) = "undefined"    \* (both pools are assigned together)
     THEN TickCatch(t, q + 1, "TypeError", emitted, ticks[t].afterFailure)
     ELSE /\ ticks' = [ticks EXCEPT ![t] = [@ EXCEPT !.pc = q + 1,
                                                     !.emitted = emitted]]
          /\ UNCHANGED <<lastTick, tickFailedBefore, pollTimer, procState>>
  /\ UNCHANGED <<hasRows, storedForms, now>>

\* The query run t awaits rejected (store down, or an SQL error).
QueryRejected(t) ==
  /\ procState = "running"
  /\ TickCatch(t, ticks[t].pc, "query", ticks[t].emitted, ticks[t].afterFailure)
  /\ UNCHANGED <<hasRows, storedForms, now, lastEmit, lastEvents>>

\* Time passes.
ClockAdvances ==
  /\ procState = "running"
  /\ now < MaxClock
  /\ now' = now + 1
  /\ UNCHANGED <<hasRows, storedForms, pollTimer, ticks, lastTick, tickFailedBefore,
                 lastEvents>>

PollStep ==
  \/ fetchAndEmitData
  \/ \E t \in 1..Len(ticks) : QueryResolved(t)
  \/ \E t \in 1..Len(ticks) : QueryRejected(t)

restOfConn == <<storeUp, logsSeenUp, attempt, retryPc, failedAttempts, pool,
                accessLogsPool, startup, held>>
restOfHub == <<sockets, socketCount, erroredSockets>>

PollNext == PollStep /\ UNCHANGED <<restOfConn, healthVars, restOfHub, httpVars, queueVars, kept>>

----------------------------------------------------------------------------
(* The connection pools under the queries of the runs and the handlers *)

ConnectionLimit(s) == IF s = "primary" THEN PrimaryLimit ELSE LogsLimit

PoolVariable(s) == IF s = "logs" THEN accessLogsPool ELSE pool

\* Some operation (a run of fetchAndEmitData, a request handler) calls
\* pool.query on the pool of store s. Runs are started by the timer without
\* regard to the runs in flight and requests arrive at will, so any number of
\* operations can be at a query at once; each of them awaits one query at a
\* time and holds no connection between two queries. mysql2 gives the query a
\* free connection, or (waitForConnections: true, queueLimit: 0) puts it at
\* the end of the pool's queue.
QueryIssued(s, watch) ==
  /\ procState = "running"
  /\ PoolVariable(s) # "undefined"
  /\ IF held[s] < ConnectionLimit(s)
     THEN /\ held' = [held EXCEPT ![s] = @ + 1]
          /\ UNCHANGED <<queued, watched>>
     ELSE /\ queued[s] < MaxQueued
          /\ queued' = [queued EXCEPT ![s] = @ + 1]
          /\ watched' = IF watch /\ watched = NotWatching
                        THEN [store |-> s, ahead |-> queued[s]]
                        ELSE watched
          /\ UNCHANGED held
  /\ UNCHANGED <<procState, storeUp, logsSeenUp, attempt, retryPc, failedAttempts,
                 pool, accessLogsPool, startup>>

\* (A variant whose query keeps its connection when it has returned.)
QueryReturnedKeepsConnection(s) ==
  /\ procState = "running"
  /\ held[s] > 0
  /\ UNCHANGED <<held, queued, watched>>
  /\ UNCHANGED <<procState, storeUp, logsSeenUp, attempt, retryPc, failedAttempts,
                 pool, accessLogsPool, startup>>

\* A query running on a connection of the pool of store s returns (result or
\* error): pool.query releases the connection, and mysql2 hands it to the
\* query at the head of the queue, if there is one.
QueryReturned(s) ==
  /\ procState = "running"
  /\ held[s] > 0
  /\ IF queued[s] > 0
     THEN /\ queued' = [queued EXCEPT ![s] = @ - 1]
          /\ watched' = IF watched.store # s THEN watched
                        ELSE IF watched.ahead = 0 THEN NotWatching
                        ELSE [watched EXCEPT !.ahead = @ - 1]
          /\ UNCHANGED held
     ELSE /\ held' = [held EXCEPT ![s] = @ - 1]
          /\ UNCHANGED <<queued, watched>>
  /\ UNCHANGED <<procState, storeUp, logsSeenUp, attempt, retryPc, failedAttempts,
                 pool, accessLogsPool, startup>>

restOfAll == <<healthVars, pollVars, hubVars, httpVars, kept>>

QueryIssuedNext == \E s \in Stores, watch \in BOOLEAN : QueryIssued(s, watch) /\ UNCHANGED restOfAll

QueryReturnedNext(s) == QueryReturned(s) /\ UNCHANGED restOfAll

PoolsNext == QueryIssuedNext \/ \E s \in Stores : QueryReturnedNext(s)

----------------------------------------------------------------------------
(* The broadcast hub: io.on('connection'), and Socket.IO's socket registry *)

\* A client connects: Socket.IO registers the socket under a fresh id and
\* calls the 'connection' handler, which logs and installs the two handlers.
SocketConnects ==
  /\ procState = "running"
  /\ socketCount < MaxSockets
  /\ socketCount' = socketCount + 1
  /\ sockets' = sockets \cup {socketCount + 1}
  /\ UNCHANGED <<erroredSockets, lastEmit>>

\* The socket closes (client left, ping timeout, ...): Socket.IO removes it
\* and calls the 'disconnect' handler, which logs.
SocketDisconnects(s) ==
  /\ procState = "running"
  /\ s \in sockets
  /\ sockets' = sockets \ {s}
  /\ UNCHANGED <<socketCount, erroredSockets, lastEmit>>

\* (A variant in which the failed socket stays subscribed.)
AfterTransportErrorKept(s) == sockets

\* What is left connected after the transport of socket s failed: the 'error'
\* and 'disconnect' handlers only log; Socket.IO closes the failed connection
\* and removes its socket.
AfterTransportError(s) == sockets \ {s}

SocketTransportError(s) ==
  /\ procState = "running"
  /\ s \in sockets
  /\ sockets' = AfterTransportError(s)
  /\ erroredSockets' = erroredSockets \cup {s}
  /\ UNCHANGED <<socketCount, lastEmit>>

HubStep ==
  \/ SocketConnects
  \/ \E s \in sockets : SocketDisconnects(s)
  \/ \E s \in sockets : SocketTransportError(s)

HubNext == HubStep /\ UNCHANGED <<connVars, healthVars, pollVars, httpVars, queueVars, kept>>

----------------------------------------------------------------------------
(* GET /api/access-logs *)

NoAccessLogsResponse == [status |-> 0, error |-> "none", details |-> FALSE, rows |-> "none"]

\* The result of the join query: up to 5 entries, or none.
AccessLogRows == IF hasRows[5] THEN "latest entries" ELSE "no entries"

\* return res.json(rows)
AccessLogsOk ==
  [status |-> 200, error |-> "none", details |-> FALSE, rows |-> AccessLogRows]

\* return res.status(500).json({error: ..., details: error.message})
AccessLogsError ==
  [status |-> 500, error |-> "Failed to fetch access logs", details |-> TRUE,
   rows |-> "none"]

NothingSent == [queries |-> 0, responses |-> 0]

\* (A variant that gives up one attempt early.)
AccessLogsCatchGivesUpEarly(r, failures, sent) ==
  /\ alFailures' = failures + 1
  /\ alRetries' = r - 1
  /\ IF r - 1 <= 1
     THEN /\ alPc' = "responded" /\ alRes' = AccessLogsError
          /\ alSent' = [sent EXCEPT !.responses = @ + 1]
     ELSE alPc' = "waiting" /\ alRes' = NoAccessLogsResponse /\ alSent' = sent

\* (A variant that answers 500 on every failure and still goes on retrying.)
AccessLogsCatchAnswersEachFailure(r, failures, sent) ==
  /\ alFailures' = failures + 1
  /\ alRetries' = r - 1
  /\ alRes' = AccessLogsError
  /\ alSent' = [sent EXCEPT !.responses = @ + 1]
  /\ alPc' = IF r - 1 = 0 THEN "responded" ELSE "waiting"

\* The catch block: retries--; at 0 answer 500 and return, otherwise wait 1 s
\* and loop.
AccessLogsCatch(r, failures, sent) ==
  /\ alFailures' = failures + 1
  /\ alRetries' = r - 1
  /\ IF r - 1 = 0
     THEN /\ alPc' = "responded" /\ alRes' = AccessLogsError
          /\ alSent' = [sent EXCEPT !.responses = @ + 1]
     ELSE alPc' = "waiting" /\ alRes' = NoAccessLogsResponse /\ alSent' = sent

\* One turn of while (retries > 0): the query is issued; with accessLogsPool
\* still undefined the call throws a TypeError into the catch block and no
\* query goes out.
AccessLogsIssue(r, failures, sent) ==
  IF accessLogsPool = "undefined"
  THEN AccessLogsCatch(r, failures, sent)
  ELSE /\ alPc' = "querying" /\ alRetries' = r /\ alFailures' = failures
       /\ alRes' = NoAccessLogsResponse
       /\ alSent' = [sent EXCEPT !.queries = @ + 1]

\* A request arrives: let retries = 3 and the first turn of the loop.
AccessLogsRequest ==
  /\ procState = "running" /\ alPc \in {"idle", "responded"}
  /\ AccessLogsIssue(AccessLogRetries, 0, NothingSent)

\* The query resolved: return res.json(rows).
AccessLogsQueryResolved ==
  /\ procState = "running" /\ alPc = "querying"
  /\ storeUp["logs"]
  /\ alPc' = "responded" /\ alRes' = AccessLogsOk
  /\ alSent' = [alSent EXCEPT !.responses = @ + 1]
  /\ UNCHANGED <<alRetries, alFailures>>

AccessLogsQueryRejected ==
  /\ procState = "running" /\ alPc = "querying"
  /\ AccessLogsCatch(alRetries, alFailures, alSent)

AccessLogsDelayElapsed ==
  /\ procState = "running" /\ alPc = "waiting"
  /\ AccessLogsIssue(alRetries, alFailures, alSent)

AccessLogsStep ==
  \/ AccessLogsRequest
  \/ AccessLogsQueryResolved
  \/ AccessLogsQueryRejected
  \/ AccessLogsDelayElapsed

AccessLogsNext ==
  /\ AccessLogsStep
  /\ UNCHANGED <<connVars, healthVars, pollVars, hubVars, authVars, loginVars, queueVars, kept>>

----------------------------------------------------------------------------
(* authenticateToken, mounted on /api/protected *)

\* Characters of an Authorization header: the space that split(' ') cuts at
\* and two letters. As a token, <<"v">> stands for a token signed with
\* JWT_SECRET and not expired, <<"x">> for one signed with it and expired;
\* every other word fails the signature check.
HeaderChars == {" ", "v", "x"}

RECURSIVE SeqsUpTo(_)
SeqsUpTo(n) ==
  IF n = 0 THEN {<<>>}
  ELSE LET shorter == SeqsUpTo(n - 1) IN
       shorter \cup {Append(w, c) : w \in {x \in shorter : Len(x) = n - 1},
                                    c \in HeaderChars}

NoHeader == [present |-> FALSE, value |-> <<>>]

Headers == {NoHeader} \cup {[present |-> TRUE, value |-> v] : v \in SeqsUpTo(MaxHeaderLen)}

\* String.prototype.split(' '): the pieces between the spaces, empty pieces
\* included; always at least one piece.
RECURSIVE Split(_)
Split(str) ==
  IF str = <<>> THEN <<(<<>>)>>
  ELSE LET rest == Split(Tail(str)) IN
       IF Head(str) = " "
       THEN <<(<<>>)>> \o rest
       ELSE <<(<<Head(str)>> \o Head(rest))>> \o Tail(rest)

NoToken == [present |-> FALSE, value |-> <<>>]

\* const token = authHeader && authHeader.split(' ')[1]
ExtractToken(header) ==
  IF ~header.present \/ header.value = <<>> THEN NoToken
  ELSE LET parts == Split(header.value) IN
       IF Len(parts) < 2 THEN NoToken ELSE [present |-> TRUE, value |-> parts[2]]

\* !token: undefined and the empty string are falsy.
Falsy(token) == ~token.present \/ token.value = <<>>

\* jwt.verify(token, JWT_SECRET, cb): the err / user handed to the callback.
jwtVerify(word) ==
  IF word = <<"v">> THEN [err |-> "none", user |-> "payload"]
  ELSE IF word = <<"x">> THEN [err |-> "TokenExpiredError", user |-> "none"]
  ELSE [err |-> "JsonWebTokenError", user |-> "none"]

NoAuthResult == [status |-> 0, error |-> "none", next |-> FALSE, user |-> "none"]

\* (A variant that lets an expired token through.)
authenticateTokenIgnoresExpiry(header) ==
  LET token == ExtractToken(header) IN
  IF Falsy(token)
  THEN [status |-> 401, error |-> "No token provided", next |-> FALSE, user |-> "none"]
  ELSE LET v == jwtVerify(token.value) IN
       IF v.err = "JsonWebTokenError"
       THEN [status |-> 403, error |-> "Invalid token", next |-> FALSE, user |-> "none"]
       ELSE [status |-> 0, error |-> "none", next |-> TRUE, user |-> v.user]

\* authenticateToken: 401 without a token, 403 when jwt.verify reports an
\* error, otherwise req.user = user and next().
authenticateToken(header) ==
  LET token == ExtractToken(header) IN
  IF Falsy(token)
  THEN [status |-> 401, error |-> "No token provided", next |-> FALSE, user |-> "none"]
  ELSE LET v == jwtVerify(token.value) IN
       IF v.err # "none"
       THEN [status |-> 403, error |-> "Invalid token", next |-> FALSE, user |-> "none"]
       ELSE [status |-> 0, error |-> "none", next |-> TRUE, user |-> v.user]

\* A request to a route under /api/protected passes the middleware.
ProtectedRequest(header) ==
  /\ procState = "running"
  /\ authReq' = header
  /\ authRes' = authenticateToken(header)

AuthNext ==
  /\ \E header \in Headers : ProtectedRequest(header)
  /\ UNCHANGED <<connVars, healthVars, pollVars, hubVars, accessLogVars, loginVars, queueVars, kept>>

----------------------------------------------------------------------------
(* POST /api/login *)

\* req.body: a username that is or is not in the users table, and a password
\* that matches the stored hash, does not match it, or is missing.
Usernames == {"known", "unknown"}
Passwords == {"right", "wrong", "absent"}

NoLoginBody == [username |-> "none", password |-> "none"]

\* SELECT * FROM users WHERE username = ?
UsersFound(username) == IF username = "known" THEN 1 ELSE 0

\* bcrypt.compare(password, user.password): rejects when the password is not
\* a string.
bcryptCompare(password) ==
  CASE password = "right" -> "true"
    [] password = "wrong" -> "false"
    [] OTHER -> "throws"

NoLoginResponse == [status |-> 0, error |-> "none", token |-> "none", path |-> "none"]

\* (A variant that tells the client the user does not exist.)
LoginNoSuchUserTelling ==
  [status |-> 401, error |-> "User not found", token |-> "none", path |-> "no user"]

\* return res.status(401).json({ error: 'Invalid credentials' }) at line 135
LoginNoSuchUser ==
  [status |-> 401, error |-> "Invalid credentials", token |-> "none", path |-> "no user"]

\* the same at line 142
LoginWrongPassword ==
  [status |-> 401, error |-> "Invalid credentials", token |-> "none",
   path |-> "wrong password"]

\* res.json({ token }) with jwt.sign({userId, username}, JWT_SECRET, 7d)
LoginToken(username) ==
  [status |-> 200, error |-> "none", token |-> username, path |-> "signed"]

\* catch: res.status(500).json({ error: 'Internal server error' })
LoginError ==
  [status |-> 500, error |-> "Internal server error", token |-> "none",
   path |-> "catch"]

\* (A variant without the try/catch: the TypeError rejects the promise of the
\* async handler, which nothing handles.)
LoginRequestUncaught(username, password) ==
  /\ procState = "running" /\ loginPc \in {"idle", "responded"}
  /\ loginReq' = [username |-> username, password |-> password]
  /\ IF pool = "undefined"
     THEN loginPc' = "idle" /\ loginRes' = NoLoginResponse /\ procState' = "crashed"
     ELSE loginPc' = "querying" /\ loginRes' = NoLoginResponse /\ UNCHANGED procState

\* A request arrives; with pool still undefined pool.query throws a TypeError
\* into the catch block.
LoginRequest(username, password) ==
  /\ procState = "running" /\ loginPc \in {"idle", "responded"}
  /\ loginReq' = [username |-> username, password |-> password]
  /\ IF pool = "undefined"
     THEN loginPc' = "responded" /\ loginRes' = LoginError
     ELSE loginPc' = "querying" /\ loginRes' = NoLoginResponse
  /\ UNCHANGED procState

\* The users query resolved.
LoginQueryResolved ==
  /\ procState = "running" /\ loginPc = "querying"
  /\ storeUp["primary"]
  /\ IF UsersFound(loginReq.username) = 0
     THEN loginPc' = "responded" /\ loginRes' = LoginNoSuchUser
     ELSE loginPc' = "comparing" /\ loginRes' = NoLoginResponse
  /\ UNCHANGED <<loginReq, procState>>

\* The users query rejected.
LoginQueryRejected ==
  /\ procState = "running" /\ loginPc = "querying"
  /\ loginPc' = "responded" /\ loginRes' = LoginError
  /\ UNCHANGED <<loginReq, procState>>

\* bcrypt.compare settled.
LoginCompareSettles ==
  LET isValidPassword == bcryptCompare(loginReq.password) IN
  /\ procState = "running" /\ loginPc = "comparing"
  /\ loginPc' = "responded"
  /\ loginRes' = CASE isValidPassword = "throws" -> LoginError
                   [] isValidPassword = "false" -> LoginWrongPassword
                   [] OTHER -> LoginToken(loginReq.username)
  /\ UNCHANGED <<loginReq, procState>>

LoginStep ==
  \/ \E username \in Usernames, password \in Passwords : LoginRequest(username, password)
  \/ LoginQueryResolved
  \/ LoginQueryRejected
  \/ LoginCompareSettles

LoginNext ==
  /\ LoginStep
  /\ UNCHANGED <<restOfConn, healthVars, pollVars, hubVars, accessLogVars, authVars,
                 queueVars, kept>>

----------------------------------------------------------------------------
InitBase ==
  /\ procState = "running"
  /\ storeUp \in [Stores -> BOOLEAN]
  /\ logsSeenUp = storeUp["logs"]
  /\ attempt = 0
  /\ retryPc = "getConnection"
  /\ failedAttempts = 0
  /\ pool = "undefined"
  /\ accessLogsPool = "undefined"
  /\ startup = "pending"
  /\ held = [s \in Stores |-> 0]
  /\ queued = [s \in Stores |-> 0]
  /\ watched = NotWatching
  /\ healthPc = "idle"
  /\ healthRes = NoHealthResponse
  /\ pollTimer = "armed"
  /\ ticks = <<>>
  /\ lastTick = NoTick
  /\ now = 0
  /\ lastEvents = NoEvents
  /\ tickFailedBefore = FALSE
  /\ sockets = {}
  /\ socketCount = 0
  /\ erroredSockets = {}
  /\ lastEmit = <<>>
  /\ alPc = "idle"
  /\ alRetries = AccessLogRetries
  /\ alFailures = 0
  /\ alSent = NothingSent
  /\ alRes = NoAccessLogsResponse
  /\ authReq = NoHeader
  /\ authRes = NoAuthResult
  /\ loginPc = "idle"
  /\ loginReq = NoLoginBody
  /\ loginRes = NoLoginResponse

\* The inputs of a run: the tables' contents and the histories it records.
SetUpWith(tables, forms, histories) ==
  InitBase /\ hasRows \in tables /\ storedForms = forms /\ kept = histories

SetUp(tables, histories) == SetUpWith(tables, DecimalForms, histories)

AnyTables == [Queries -> BOOLEAN]

PopulatedTables == {[q \in Queries |-> TRUE]}

StartupNext ==
  StartupStep /\ UNCHANGED <<healthVars, pollVars, hubVars, httpVars, queueVars, kept>>

EnvNext ==
  /\ \E s \in Stores : StoreFlips(s)
  /\ UNCHANGED <<healthVars, pollVars, hubVars, httpVars, queueVars, kept>>

HealthNext == HealthStep /\ UNCHANGED <<pollVars, hubVars, httpVars, queueVars, kept>>

ClockNext ==
  ClockAdvances /\ UNCHANGED <<connVars, healthVars, hubVars, httpVars, queueVars, kept>>

NextConn == StartupNext \/ EnvNext \/ HealthNext

Init == SetUp(AnyTables, {"tick"})

Next == StartupNext \/ PollNext

Spec == Init /\ [][Next]_vars

NextHub == StartupNext \/ PollNext \/ HubNext

SpecHub == SetUp(PopulatedTables, {"emit"}) /\ [][NextHub]_vars

NextAccessLogs == StartupNext \/ EnvNext \/ AccessLogsNext

SpecAccessLogs == SetUp(AnyTables, {}) /\ [][NextAccessLogs]_vars

SpecAuth == SetUp(PopulatedTables, {}) /\ [][AuthNext]_vars

NextLogin == StartupNext \/ EnvNext \/ LoginNext

SpecLogin == SetUp(PopulatedTables, {}) /\ [][NextLogin]_vars

SpecConn == SetUp(PopulatedTables, {}) /\ [][NextConn]_vars

\* Every getConnection() of startup settles and every retry timer fires.
FairConn == SpecConn /\ WF_vars(StartupNext)

\* Startup and the poll loop, recording both how runs end and what they emit.
SpecEarly == SetUp(PopulatedTables, {"tick", "emit"}) /\ [][Next]_vars

NextAll ==
  StartupNext \/ HealthNext \/ PollNext \/ HubNext \/ AccessLogsNext \/ LoginNext

\* The whole server: startup, the poll loop, the subscribers and the handlers
\* that use a pool, all at once. (The access-log store answers; its queries
\* can be rejected all the same.)
InitAll == SetUp(PopulatedTables, {}) /\ storeUp["logs"]

SpecAll == InitAll /\ [][NextAll]_vars

NextPools == StartupNext \/ PoolsNext

SpecPools == SetUp(PopulatedTables, {}) /\ [][NextPools]_vars

\* Every query that runs on a connection returns, with rows or an error.
FairPools == SpecPools /\ \A s \in Stores : WF_vars(QueryReturnedNext(s))

NextEvents == StartupNext \/ PollNext \/ ClockNext

\* The poll loop with the clock running, recording the payloads.
SpecEvents ==
  SetUpWith(AnyTables, DecimalForms, {"emit", "event"}) /\ [][NextEvents]_vars

\* The poll loop over sensor tables that store their values as text.
SpecValues == SetUpWith(PopulatedTables, AnyForms, {"event"}) /\ [][Next]_vars

----------------------------------------------------------------------------
(* Claims about the connection manager *)

\* C3: when all Retries connection attempts of the primary pool fail, startup
\* ends in the fatal outcome (createPoolWithRetry throws, process.exit(1))
\* after exactly Retries attempts: there is never one attempt more, never a
\* wait after the last attempt, and startup does not stay pending for ever.
StartupExhaustionIsFatal ==
  /\ [](failedAttempts <= Retries)
  /\ [](failedAttempts = Retries =>
          retryPc = "thrown" /\ startup = "fatal" /\ procState = "exited")
  /\ [](startup = "fatal" => failedAttempts = Retries)
  /\ [](retryPc = "delay" => failedAttempts < Retries)
  /\ <>(startup # "pending")

StartupExhausted ==
  failedAttempts = Retries /\ startup = "fatal" /\ procState = "exited"

\* C13: the program ends the process only through the startup connectivity
\* failure: the process is never brought down by an unhandled error, it has
\* exited only if createPoolWithRetry gave up after Retries failed attempts
\* (process.exit(1) in the catch of the startup chain), and once startup has
\* succeeded it runs on with its timer armed, whatever fails in the poll
\* ticks, in the login, health and access-logs handlers (also before the
\* pools are assigned) or on the subscribers' sockets.
OnlyStartupHaltsTheProcess ==
  /\ procState \in {"running", "exited"}
  /\ procState = "exited" =>
       (startup = "fatal" /\ retryPc = "thrown" /\ failedAttempts = Retries)
  /\ startup \in {"pending", "established"} => procState = "running"
  /\ procState = "running" => pollTimer = "armed"

HandlersFailedProcessRunning ==
  /\ procState = "running"
  /\ pool = "undefined"
  /\ loginPc = "responded" /\ loginRes = LoginError
  /\ alPc = "responded" /\ alRes.status = 500
  /\ healthPc = "responded" /\ healthRes.database = "disconnected"
  /\ erroredSockets # {}

\* C17: createPoolWithRetry makes at most Retries attempts (attempt counts
\* from 0) and stops at the first one that succeeds: when it has returned,
\* every earlier attempt had failed and no further attempt or wait follows.
\* It waits only between two attempts: whenever it waits, the attempt that
\* failed was not the last one. The pool it returns has no connection
\* checked out: the test connection has been released.
RetryReturnsAReleasedPool ==
  /\ [](attempt < Retries)
  /\ [](retryPc = "returned" =>
          (failedAttempts = attempt /\ held["primary"] = 0 /\ pool = "mainPool"))
  /\ [](retryPc = "delay" => (failedAttempts = attempt + 1 /\ attempt + 1 < Retries))
  /\ [](retryPc = "getConnection" => failedAttempts = attempt)
  /\ [][retryPc = "returned" =>
          (retryPc' = "returned" /\ attempt' = attempt /\ failedAttempts' = failedAttempts
           /\ held'["primary"] = 0)]_vars

ReturnedOnLastAttempt ==
  /\ retryPc = "returned"
  /\ attempt = Retries - 1
  /\ failedAttempts = Retries - 1
  /\ held["primary"] = 0

\* C4: startup reports success ('All database connections established') only
\* if the access-log store too was reached during startup; with that store
\* unreachable throughout, startup ends in the fatal outcome.
NoPartialStartupSuccess == startup = "established" => logsSeenUp

\* C6: GET /api/health always answers 200 with status 'ok', also before the
\* pool is assigned and while the database is down, and never brings the
\* process down; database is 'connected' exactly when the probe acquired (and
\* released) a connection of the primary pool.
HealthAlwaysOk ==
  /\ procState # "crashed"
  /\ (healthPc = "responded") = (healthRes # NoHealthResponse)
  /\ healthRes # NoHealthResponse =>
       /\ healthRes.status = 200
       /\ healthRes.body = "ok"
       /\ healthRes.database \in {"connected", "disconnected"}
       /\ (healthRes.database = "connected") = healthRes.acquired
       /\ healthRes.acquired => pool = "mainPool"

HealthAnsweredBeforeStartup ==
  /\ healthRes # NoHealthResponse
  /\ pool = "undefined"
  /\ healthRes.status = 200
  /\ healthRes.database = "disconnected"

----------------------------------------------------------------------------
(* Claims about the poll tick *)

AllTopics(q) == {TopicsOf(q)[k] : k \in 1..Len(TopicsOf(q))}

EmittedSet(tick) == {tick.emitted[k] : k \in 1..Len(tick.emitted)}

\* C1: in a tick in which exactly one of the five queries fails (both stores
\* answer, so no other query would fail), whichever it is, the events of each
\* of the other four queries whose table holds a row are still emitted in
\* that tick.
OneFailureSparesTheOtherQueries ==
  (/\ lastTick.failed \in Queries /\ lastTick.cause = "query"
   /\ \A q \in Queries : storeUp[StoreOf(q)]) =>
    \A q \in Queries \ {lastTick.failed} :
      hasRows[q] => AllTopics(q) \subseteq EmittedSet(lastTick)

\* The battery of a run that no query failed: the topics of every query whose
\* table holds a row, in query order.
RECURSIVE FullBattery(_)
FullBattery(q) ==
  IF q = 0 THEN <<>>
  ELSE FullBattery(q - 1) \o (IF hasRows[q] THEN TopicsOf(q) ELSE <<>>)

\* C2: a query error is suppressed inside its tick: it never ends the process
\* nor clears the interval timer, and a tick started after failed ticks runs
\* the five queries from the first one again.
PollLoopSurvivesQueryErrors ==
  /\ procState # "crashed"
  /\ procState = "running" => pollTimer = "armed"
  /\ \A t \in 1..Len(ticks) :
       /\ ticks[t].pc \in Queries
       /\ ticks[t].emitted = FullBattery(ticks[t].pc - 1)
  /\ (lastTick # NoTick /\ lastTick.failed = 0) => lastTick.emitted = FullBattery(5)

FullTickAfterFailedTick ==
  /\ procState = "running"
  /\ lastTick # NoTick
  /\ lastTick.failed = 0
  /\ lastTick.afterFailure
  /\ Len(lastTick.emitted) = 7

----------------------------------------------------------------------------
\* C15: the number of runs of fetchAndEmitData in flight at the same time is
\* bounded by the program: when the queries take longer than the interval, a
\* new run is not started once a fixed number of runs (one, or some other
\* number of its choosing, anyhow fewer than this model is able to hold) are
\* still running.
TicksInFlightBounded == Len(ticks) < MaxInFlight

\* C14: an empty result of one of the five poll queries is not an error: the
\* step that receives it emits nothing, does not enter the catch block and
\* goes on to the next query (or ends the run normally after the fifth); a
\* run that no query failed has emitted the topics of exactly the queries
\* whose table holds a row.
EmptyResultIsNotAnError ==
  /\ [][\A t \in 1..Len(ticks) :
          (QueryResolved(t) /\ ~hasRows[ticks[t].pc]) =>
            /\ tickFailedBefore' = tickFailedBefore
            /\ IF ticks[t].pc = 5
               THEN /\ lastTick'.failed = 0 /\ lastTick'.cause = "none"
                    /\ lastTick'.emitted = ticks[t].emitted
               ELSE /\ Len(ticks') = Len(ticks)
                    /\ ticks'[t].pc = ticks[t].pc + 1
                    /\ ticks'[t].emitted = ticks[t].emitted]_vars
  /\ [](lastTick.cause = "none" =>
          \A q \in Queries :
            IF hasRows[q]
            THEN AllTopics(q) \subseteq EmittedSet(lastTick)
            ELSE AllTopics(q) \cap EmittedSet(lastTick) = {})

EmptyTableSkippedOthersEmitted ==
  /\ lastTick.cause = "none"
  /\ ~hasRows[2] /\ hasRows[3] /\ hasRows[5]
  /\ "ups_temperature" \notin EmittedSet(lastTick)
  /\ "electrical_data" \in EmittedSet(lastTick)
  /\ "access_logs" \in EmittedSet(lastTick)

----------------------------------------------------------------------------
\* C16: the pools never deadlock and no waiting query starves. A pool never
\* has more connections checked out than its limit (10 and 5), a query waits
\* only while every connection of its pool is running a query (each held by
\* an operation for that one query), and, every running query returning in
\* the end, a query waiting in the queue of either pool gets a connection.
PoolsNeverStarve ==
  /\ [](\A s \in Stores : held[s] <= ConnectionLimit(s))
  /\ [](\A s \in Stores : queued[s] > 0 => held[s] = ConnectionLimit(s))
  /\ [](watched # NotWatching =>
          (watched.store \in Stores /\ watched.ahead < queued[watched.store]))
  /\ (watched # NotWatching) ~> (watched = NotWatching)

QueryWaitsBehindAnother ==
  /\ watched = [store |-> "primary", ahead |-> 1]
  /\ held["primary"] = PrimaryLimit
  /\ queued["logs"] > 0 /\ held["logs"] = LogsLimit

\* C18: nothing is emitted before startup has assigned the primary pool. The
\* interval timer is armed from the start, whatever the state of startup; a
\* tick that fires while pool is still undefined ends at its first query
\* (TypeError, caught) having emitted nothing, leaves no run in flight, and
\* neither ends the process nor stops the timer.
NoEventBeforePoolAssigned ==
  /\ pool = "undefined" =>
       /\ lastEmit = <<>>
       /\ ticks = <<>>
       /\ lastTick.cause \in {"never", "TypeError"}
  /\ lastTick.cause = "TypeError" => (lastTick.failed = 1 /\ lastTick.emitted = <<>>)
  /\ procState # "crashed"
  /\ procState = "running" => pollTimer = "armed"

TickFiredBeforePoolAssigned ==
  /\ pool = "undefined" /\ startup = "pending"
  /\ failedAttempts > 0
  /\ lastTick.cause = "TypeError"
  /\ procState = "running" /\ pollTimer = "armed"

----------------------------------------------------------------------------
(* Claims about the events' payloads *)

\* A stored value is a well-formed number when the whole of it is a decimal
\* literal: digits, optionally a point and digits, at least one digit.
WellFormed(str) ==
  LET whole == DigitRun(str)
      rest == SubSeq(str, Len(whole) + 1, Len(str))
      frac == IF rest # <<>> /\ Head(rest) = "." THEN DigitRun(Tail(rest)) ELSE <<>>
      used == Len(whole) + (IF rest # <<>> /\ Head(rest) = "." THEN 1 + Len(frac) ELSE 0) IN
  (whole # <<>> \/ frac # <<>>) /\ used = Len(str)

\* The timestamps of the rows of a result, and those an event carries.
RowTimes(q, result) ==
  IF q = 5 THEN {result[k].access_time : k \in 1..Len(result)}
  ELSE {result[k].waktu : k \in 1..Len(result)}

EventTimes(q, payload) ==
  IF q = 5 THEN {payload[k].access_time : k \in 1..Len(payload)}
  ELSE {payload.waktu}

\* C11: every event a poll tick emits, on each of the seven topics, carries
\* the timestamp(s) of the row(s) it was built from, whatever the clock says
\* when it is emitted: there is one payload per topic of the query, and its
\* timestamps are exactly those of the result.
EventTimeIsRowTime ==
  lastEvents.query # 0 =>
    /\ Len(lastEvents.payloads) = Len(TopicsOf(lastEvents.query))
    /\ \A k \in 1..Len(lastEvents.payloads) :
         /\ EventTimes(lastEvents.query, lastEvents.payloads[k]) # {}
         /\ EventTimes(lastEvents.query, lastEvents.payloads[k]) =
              RowTimes(lastEvents.query, lastEvents.result)

StaleRowKeepsItsTime ==
  /\ lastEvents.query = 1
  /\ lastEvents.at = MaxClock
  /\ lastEvents.result[1].waktu = 0
  /\ lastEvents.payloads[1].waktu = 0
  /\ lastEvents.payloads[2].waktu = 0

TopicOrder ==
  <<"noc_temperature", "noc_humidity", "ups_temperature", "ups_humidity",
    "electrical_data", "fire_smoke_data", "access_logs">>

Position(topic) == CHOOSE i \in 1..Len(TopicOrder) : TopicOrder[i] = topic

InFixedOrder(topics) ==
  \A i, j \in 1..Len(topics) : i < j => Position(topics[i]) < Position(topics[j])

Paired(topics, first, second) ==
  \A i \in 1..Len(topics) :
    /\ topics[i] = first => (i < Len(topics) /\ topics[i + 1] = second)
    /\ topics[i] = second => (i > 1 /\ topics[i - 1] = first)

PairedInOrder(topics) ==
  /\ InFixedOrder(topics)
  /\ Paired(topics, "noc_temperature", "noc_humidity")
  /\ Paired(topics, "ups_temperature", "ups_humidity")

\* Where the topics of query q start in the fixed order.
FirstPosition(q) == IF q <= 2 THEN 2 * q - 1 ELSE q + 2

\* C19: the events of one tick are emitted in the order noc_temperature,
\* noc_humidity, ups_temperature, ups_humidity, electrical_data,
\* fire_smoke_data, access_logs, topics without data left out: what a run
\* has emitted so far is in that order and comes before the topics of the
\* query it awaits, and a step emits the topics of its query in that order.
\* The temperature event of a sensor table is always followed at once by its
\* humidity event (neither is emitted alone), and the two are built from the
\* same row and carry the same timestamp.
EventsInFixedOrderAndPaired ==
  /\ \A t \in 1..Len(ticks) :
       /\ PairedInOrder(ticks[t].emitted)
       /\ \A k \in 1..Len(ticks[t].emitted) :
            Position(ticks[t].emitted[k]) < FirstPosition(ticks[t].pc)
  /\ lastEvents.query # 0 =>
       /\ PairedInOrder(TopicsEmitted(lastEmit))
       /\ Position(lastEmit[1].topic) = FirstPosition(lastEvents.query)
       /\ Len(lastEvents.payloads) = Len(lastEmit)
  /\ lastEvents.query \in {1, 2} =>
       /\ Len(lastEvents.payloads) = 2
       /\ DOMAIN lastEvents.payloads[1] = {"suhu", "waktu"}
       /\ DOMAIN lastEvents.payloads[2] = {"kelembapan", "waktu"}
       /\ lastEvents.payloads[1].waktu = lastEvents.payloads[2].waktu
       /\ lastEvents.payloads[1].suhu = parseFloat(lastEvents.result[1].suhu)
       /\ lastEvents.payloads[2].kelembapan =
            parseFloat(lastEvents.result[1].kelembapan)

PairEmittedAfterSkippedTable ==
  /\ ~hasRows[1] /\ hasRows[2] /\ ~hasRows[3] /\ hasRows[4]
  /\ \E t \in 1..Len(ticks) :
       ticks[t].emitted = <<"ups_temperature", "ups_humidity", "fire_smoke_data">>
  /\ lastEvents.query = 2
  /\ lastEvents.result[1].waktu > 0
  /\ lastEvents.payloads[1].waktu = lastEvents.payloads[2].waktu

\* C12: for every stored sensor value that is not a well-formed number (empty,
\* alphabetic, digits followed by other characters) the temperature and the
\* humidity event of the row are still emitted, and the value of the event
\* built from the malformed field is NaN.
MalformedValueYieldsNaN ==
  lastEvents.query \in {1, 2} =>
    /\ Len(lastEvents.payloads) = 2
    /\ ~WellFormed(lastEvents.result[1].suhu) => lastEvents.payloads[1].suhu = NaN
    /\ ~WellFormed(lastEvents.result[1].kelembapan) =>
         lastEvents.payloads[2].kelembapan = NaN

----------------------------------------------------------------------------
(* Claims about the broadcast hub *)

\* C9: each publish is delivered to exactly the sockets connected at the
\* moment of the publish (a socket that connects later does not get it, a
\* socket still connected gets every publish), and a socket that has left
\* is never a subscriber again.
PublishReachesExactlyConnected ==
  /\ [][\A t \in 1..Len(ticks) :
          (QueryResolved(t) /\ hasRows[ticks[t].pc]) =>
            /\ Len(lastEmit') = Len(TopicsOf(ticks[t].pc))
            /\ \A k \in 1..Len(lastEmit') : lastEmit'[k].to = sockets]_vars
  /\ [][\A s \in 1..socketCount : s \notin sockets => s \notin sockets']_vars

LateSubscriberMissedPublish ==
  /\ lastEmit # <<>>
  /\ lastEmit[1].to # {}
  /\ \E s \in sockets : s \notin lastEmit[1].to
  /\ \E s \in lastEmit[1].to : s \notin sockets

\* C10: a transport error on one socket drops that socket and only that one:
\* it receives no later event, the other sockets stay subscribed and the
\* process and the poll loop go on.
SubscriberErrorIsIsolated ==
  /\ [][\A s \in sockets :
          SocketTransportError(s) =>
            /\ sockets' = sockets \ {s}
            /\ procState' = "running" /\ pollTimer' = "armed"]_vars
  /\ [](erroredSockets \cap sockets = {})
  /\ [](\A k \in 1..Len(lastEmit) : lastEmit[k].to \cap lastEmit[k].errored = {})

PublishAfterSubscriberError ==
  /\ lastEmit # <<>>
  /\ lastEmit[1].errored # {}
  /\ lastEmit[1].to # {}

----------------------------------------------------------------------------
(* Claims about the HTTP handlers *)

\* C20: a GET /api/access-logs request issues at most 3 queries and sends
\* exactly one response: none while the handler is still running, one when it
\* has ended, and once it has responded it issues no query and sends nothing
\* more (until the next request).
AccessLogsAnswersOnce ==
  /\ [](alSent.queries <= AccessLogRetries)
  /\ [](alSent.responses = (IF alPc = "responded" THEN 1 ELSE 0))
  /\ []((alPc = "responded") = (alRes # NoAccessLogsResponse))
  /\ [][(alPc = "responded" /\ ~AccessLogsRequest) => alSent' = alSent]_vars

AccessLogsAnsweredAfterThreeQueries ==
  alPc = "responded" /\ alSent = [queries |-> 3, responses |-> 1] /\ alRes.status = 500


\* C5: a GET /api/access-logs request whose query failed 3 times in a row is
\* answered 500 with error and details; one whose query failed k times
\* (k in 0..2) and then succeeded is answered with the rows of the
\* successful query and no error status. No request sees a 4th failure and
\* none is answered 500 earlier.
AccessLogsRetryOutcome ==
  /\ alFailures <= AccessLogRetries
  /\ alPc # "responded" => alFailures < AccessLogRetries
  /\ alPc = "responded" =>
       IF alFailures = AccessLogRetries
       THEN /\ alRes.status = 500
            /\ alRes.error = "Failed to fetch access logs"
            /\ alRes.details
            /\ alRes.rows = "none"
       ELSE /\ alRes.status = 200
            /\ alRes.error = "none"
            /\ alRes.rows = AccessLogRows

AccessLogsSucceededOnThirdTry ==
  alPc = "responded" /\ alFailures = 2 /\ alRes.status = 200

\* C7: a request under /api/protected with no token in the Authorization
\* header is answered 401 and does not reach the handler; one whose token
\* fails the signature or expiry check is answered 403 and does not reach
\* it; the handler is reached only when verification succeeded, and then the
\* verified subject is attached to the request.
ProtectedRoutesNeedValidToken ==
  LET words == Split(authReq.value)
      hasToken == authReq.present /\ Len(words) >= 2 /\ words[2] # <<>>
      verified == hasToken /\ jwtVerify(words[2]).err = "none" IN
  authRes # NoAuthResult =>
    /\ ~hasToken => authRes.status = 401
    /\ (hasToken /\ ~verified) => authRes.status = 403
    /\ authRes.status \in {401, 403} => (~authRes.next /\ authRes.user = "none")
    /\ authRes.next = verified
    /\ authRes.next => (authRes.status = 0 /\ authRes.user = "payload")

ExpiredTokenRejected ==
  /\ authReq.present
  /\ Len(Split(authReq.value)) >= 2
  /\ Split(authReq.value)[2] = <<"x">>
  /\ authRes.status = 403
  /\ ~authRes.next

\* What the client sees of a login response.
Observable(res) == [status |-> res.status, error |-> res.error, token |-> res.token]

\* C8: a login with a username that does not exist and a login with an
\* existing username and a wrong password get the same response, 401
\* 'Invalid credentials' without a token; a token is issued only when the
\* user exists and the password comparison succeeded.
LoginDoesNotRevealUsers ==
  /\ (loginPc = "responded" /\ loginRes.path \in {"no user", "wrong password"}) =>
       Observable(loginRes) =
         [status |-> 401, error |-> "Invalid credentials", token |-> "none"]
  /\ (/\ loginPc = "responded" /\ loginRes.path # "catch"
      /\ (loginReq.username = "unknown" \/ loginReq.password = "wrong")) =>
       (loginRes.status = 401 /\ loginRes.token = "none")
  /\ loginRes.token # "none" =>
       /\ loginReq.username = "known" /\ loginReq.password = "right"
       /\ loginRes.token = loginReq.username
       /\ loginRes.status = 200
  /\ loginPc # "responded" => loginRes = NoLoginResponse

UnknownUserRejected ==
  /\ loginPc = "responded"
  /\ loginReq.username = "unknown"
  /\ loginReq.password = "wrong"
  /\ loginRes.status = 401

====
